---------------------------- MODULE Spec2Model ----------------------------
(***************************************************************************)
(* A model of the ingestion core of the training-data bot:                 *)
(*   - TextPreprocessor.chunk_text        (src/preprocessing.py)           *)
(*   - BaseLoader.load_multiple           (src/sources/base_loader.py)     *)
(*   - UnifiedLoader.load_single / load_directory (src/sources/unified.py) *)
(*   - TrainingDataBot.load_documents     (src/bot.py)                     *)
(*                                                                         *)
(* SpecChunk / FairSpecChunk run one call of chunk_text, one loop          *)
(* iteration per step.  SpecLoad runs one batch call on the asyncio event  *)
(* loop, one step per resumption of a coroutine.                           *)
(***************************************************************************)
EXTENDS Integers, Sequences, FiniteSets, TLC

VARIABLES
    \* ---- TextPreprocessor.chunk_text ----
    document_id,   \* argument document_id
    text,          \* argument text, a sequence of characters
    max_chars,     \* self.max_chars
    overlap,       \* self.overlap
    start,         \* local start (the cursor)
    index,         \* local index
    chunks,        \* local chunks, the list of TextChunk built so far
    unrecorded,    \* 0 while every emitted chunk is in chunks; else 1 or 2
    cpc,           \* position in chunk_text: "idle", "call", "loop", "done"
    \* ---- a batch load on the asyncio event loop ----
    op,            \* the entry point called: "load_multiple", "load_directory",
                   \* "load_documents" ("none" outside SpecLoad)
    sources,       \* the sources of the batch, each given by what loading it does
    max_workers,   \* load_multiple's max_workers; 0 stands for None and for 0
    max_parallel_loaders,  \* settings.max_parallel_loaders
    dir_exists,    \* load_directory: directory.exists()
    sem,           \* the value of the asyncio.Semaphore
    tstate,        \* per task of run(s): "new", "loading", "returned", "raised"
    tresult,       \* per task: what run(s) returned or raised (NoOutcome before)
    outer,         \* the future of asyncio.gather
    callpc,        \* the loader call: "idle", "start", "gather", "returned", "raised"
    result,        \* what the loader call returned (a list) or raised
    \* ---- TrainingDataBot.load_documents ----
    items,         \* its sources argument: a file (by kind) or "dir"
    cur,           \* position of the for loop over sources
    documents,     \* local documents
    self_documents,\* self.documents, keyed by the document
    botpc,         \* "idle", "loop", "await_dir", "returned", "raised"
    \* ---- one source: get_document_type, UnifiedLoader.load_single ----
    source,        \* the source, as its string
    source_is_str, \* isinstance(source, str); FALSE for a Path object
    fs_exists,     \* Path(source).exists()
    extractor_ok,  \* the extractor (file parser, HTTP fetch) returns text
    doc_type,      \* what get_document_type(source) gave ("unset" before)
    loader,        \* what _select_loader(source) gave ("unset" before)
    single_result, \* what load_single returned or raised (NoOutcome before)
    spc,           \* "idle", "call", "typed", "delegated", "done"
    \* ---- UnifiedLoader._find_supported_files ----
    tree,          \* the entries below the directory: [parts, is_dir]
    recursive,     \* the argument recursive
    pattern,       \* position of "for pattern in patterns" (1-based)
    files,         \* the list files, Paths as sequences of components
    found,         \* the returned list
    wpc            \* "idle", "loop", "returned"

chunkVars == <<document_id, text, max_chars, overlap, start, index, chunks,
               unrecorded, cpc>>

loadVars == <<op, sources, max_workers, max_parallel_loaders, dir_exists, sem,
              tstate, tresult, outer, callpc, result>>

botVars == <<items, cur, documents, self_documents, botpc>>

singleVars == <<source, source_is_str, fs_exists, extractor_ok, doc_type,
                loader, single_result, spc>>

walkVars == <<tree, recursive, pattern, files, found, wpc>>

extVars == <<singleVars, walkVars>>

vars == <<chunkVars, loadVars, botVars, extVars>>

Min(a, b) == IF a <= b THEN a ELSE b
Max(a, b) == IF a >= b THEN a ELSE b

(***************************************************************************)
(* Bounds of the model.                                                    *)
(***************************************************************************)
MaxLen == 4          \* longest text of the bounded inputs
MaxWindow == 3       \* largest max_chars of the bounded inputs
MaxOverlap == 4      \* largest overlap of the bounded inputs
\* The model records the first ChunkCap emitted chunks.  A call that returns
\* emits at most MaxLen chunks, so a returned list is always complete.
ChunkCap == MaxLen + 2

Chars == {"a", " "}
DocIds == {"d1"}

\* TextPreprocessor.__init__ defaults.
DefaultMaxChars == 1000
DefaultOverlap == 100
\* The 2500-character plain-text document of the worked scenario.
ScenarioText == [i \in 1..2500 |-> "a"]

Texts == UNION {[1..n -> Chars] : n \in 0..MaxLen}

MaxSources == 3      \* most sources of one batch
MaxWorkers == 2      \* largest max_workers passed to load_multiple
MaxParallel == 2     \* largest overridden settings.max_parallel_loaders
MaxItems == 2        \* most sources passed to load_documents
MaxEntries == 3      \* most entries of a directory tree

\* Settings.max_parallel_loaders as declared.
DefaultMaxParallelLoaders == 4
\* The declared value, or a positive override applied by _apply_overrides.
SettingsValues == (1..MaxParallel) \cup {DefaultMaxParallelLoaders}

\* What loading a source does:
\*   "ok"          the file exists, its suffix is supported, the extractor
\*                 returns text
\*   "missing"     the path does not exist
\*   "unsupported" the file exists, its suffix is no DocumentType
\*   "corrupt"     the file exists and is dispatched, the extractor raises
\*   "timeout"     an http(s) URL whose server does not answer: the request
\*                 ends with httpx.TimeoutException
Kinds == {"ok", "missing", "unsupported", "corrupt", "timeout"}
\* Files matched by _find_supported_files have a supported suffix; one may be
\* unreadable, or removed before its task runs.
DirKinds == {"ok", "missing", "corrupt"}
ItemKinds == Kinds \cup {"dir"}

SeqsUpTo(S, n) == UNION {[1..k -> S] : k \in 0..n}

(***************************************************************************)
(* Python semantics used by chunk_text.                                    *)
(***************************************************************************)
\* text[lo:hi] with Python's clamping of negative and oversized bounds.
PySlice(s, lo, hi) ==
    LET n == Len(s)
        l == IF lo < 0 THEN Max(n + lo, 0) ELSE Min(lo, n)
        h == IF hi < 0 THEN Max(n + hi, 0) ELSE Min(hi, n)
    IN  IF l >= h THEN <<>> ELSE SubSeq(s, l + 1, h)

\* len(content.split()): the number of maximal runs of non-blank characters.
TokenCount(content) ==
    Cardinality({i \in 1..Len(content) :
                    /\ content[i] # " "
                    /\ (i = 1 \/ content[i - 1] = " ")})

\* end = min(start + self.max_chars, len(text))
WindowEnd(s, w, n) == Min(s + w, n)

\* The advance with the clamp left out: start = end - self.overlap only.
NextStartNoClamp(end, w, o) == end - o

\* start = end - self.overlap
\* start = max(start, end) if self.overlap >= self.max_chars else start
NextStart(end, w, o) ==
    LET s == end - o
    IN  IF o >= w THEN Max(s, end) ELSE s

\* TextChunk(document_id=..., content=..., start_index=..., ...)
TextChunk(d, t, s, e, i) ==
    LET content == PySlice(t, s, e)
    IN  [document_id |-> d,
         content     |-> content,
         start_index |-> s,
         end_index   |-> e,
         chunk_index |-> i,
         token_count |-> TokenCount(content)]

(***************************************************************************)
(* Source strings.  A string is a sequence of one-character strings, so    *)
(* that str.startswith, str.lower, str.lstrip and pathlib's parsing are    *)
(* computed on the characters.                                             *)
(***************************************************************************)
StartsWith(s, p) == Len(s) >= Len(p) /\ SubSeq(s, 1, Len(p)) = p
EndsWith(s, p) == Len(s) >= Len(p) /\ SubSeq(s, Len(s) - Len(p) + 1, Len(s)) = p

\* The upper-case letters of the modelled alphabet and their lower case.
LowerOf == ("T" :> "t") @@ ("X" :> "x") @@ ("P" :> "p") @@ ("D" :> "d")
              @@ ("F" :> "f") @@ ("M" :> "m")
\* str.lower()
Lower(s) == [i \in 1..Len(s) |-> IF s[i] \in DOMAIN LowerOf THEN LowerOf[s[i]]
                                                            ELSE s[i]]

\* str.lstrip(c)
RECURSIVE LStrip(_, _)
LStrip(s, c) == IF s # <<>> /\ s[1] = c THEN LStrip(Tail(s), c) ELSE s

\* str.rfind(c), 1-based, 0 when c does not occur.
RFind(s, c) ==
    LET at == {i \in 1..Len(s) : s[i] = c}
    IN  IF at = {} THEN 0 ELSE CHOOSE i \in at : \A j \in at : j <= i

\* s.split("/")
RECURSIVE SplitSlash(_)
SplitSlash(s) ==
    LET at == {i \in 1..Len(s) : s[i] = "/"}
    IN  IF at = {} THEN <<s>>
        ELSE LET i == CHOOSE k \in at : \A j \in at : k <= j
             IN  <<SubSeq(s, 1, i - 1)>> \o SplitSlash(SubSeq(s, i + 1, Len(s)))

\* "/".join(parts)
RECURSIVE JoinSlash(_)
JoinSlash(parts) ==
    IF parts = <<>> THEN <<>>
    ELSE IF Len(parts) = 1 THEN parts[1]
    ELSE parts[1] \o <<"/">> \o JoinSlash(Tail(parts))

\* The components pathlib keeps of a POSIX path string: empty components
\* and "." are dropped.
PathParts(s) ==
    SelectSeq(SplitSlash(s), LAMBDA c : c # <<>> /\ c # <<".">>)

\* str(Path(s))
PathStr(s) ==
    LET body == JoinSlash(PathParts(s))
    IN  IF StartsWith(s, <<"/">>) THEN <<"/">> \o body
        ELSE IF body = <<>> THEN <<".">> ELSE body

\* Path(s).name
PathName(s) ==
    LET parts == PathParts(s)
    IN  IF parts = <<>> THEN <<>> ELSE parts[Len(parts)]

\* PurePath.suffix of a file name: from the last dot, unless the name has no
\* dot, starts with its only dot or ends with a dot.
NameSuffix(name) ==
    LET i == RFind(name, ".")
    IN  IF 1 < i /\ i < Len(name) THEN SubSeq(name, i, Len(name)) ELSE <<>>

\* Path(s).suffix
PathSuffix(s) == NameSuffix(PathName(s))

\* Path(s).stem
PathStem(s) ==
    LET name == PathName(s)
        i == RFind(name, ".")
    IN  IF 1 < i /\ i < Len(name) THEN SubSeq(name, 1, i - 1) ELSE name

(***************************************************************************)
(* The parts of the state a specification does not exercise.               *)
(***************************************************************************)
NoOutcome == [kind |-> "none"]
PendingFuture == [state |-> "pending"]

ChunkIdle ==
    /\ document_id = "d1"
    /\ text = <<>>
    /\ max_chars = DefaultMaxChars
    /\ overlap = DefaultOverlap
    /\ start = 0
    /\ index = 0
    /\ chunks = <<>>
    /\ unrecorded = 0
    /\ cpc = "idle"

CallIdle ==
    /\ sem = 0
    /\ tstate = <<>>
    /\ tresult = <<>>
    /\ outer = PendingFuture
    /\ callpc = "idle"
    /\ result = NoOutcome

BotIdle ==
    /\ items = <<>>
    /\ cur = 1
    /\ documents = <<>>
    /\ self_documents = {}
    /\ botpc = "idle"

SingleIdle ==
    /\ source = <<>>
    /\ source_is_str = TRUE
    /\ fs_exists = FALSE
    /\ extractor_ok = TRUE
    /\ doc_type = "unset"
    /\ loader = "unset"
    /\ single_result = NoOutcome
    /\ spc = "idle"

WalkIdle ==
    /\ tree = {}
    /\ recursive = TRUE
    /\ pattern = 1
    /\ files = <<>>
    /\ found = <<>>
    /\ wpc = "idle"

LoadIdle ==
    /\ op = "none"
    /\ sources = <<>>
    /\ max_workers = 0
    /\ max_parallel_loaders = DefaultMaxParallelLoaders
    /\ dir_exists = TRUE
    /\ CallIdle
    /\ BotIdle

(***************************************************************************)
(* chunk_text as a state machine.                                          *)
(***************************************************************************)
ChunkInputs ==
    \/ /\ text \in Texts
       /\ max_chars \in 0..MaxWindow
       /\ overlap \in 0..MaxOverlap
    \/ /\ text = ScenarioText
       /\ max_chars = DefaultMaxChars
       /\ overlap = DefaultOverlap

InitChunk ==
    /\ document_id \in DocIds
    /\ ChunkInputs
    /\ start = 0
    /\ index = 0
    /\ chunks = <<>>
    /\ unrecorded = 0
    /\ cpc = "call"
    /\ LoadIdle
    /\ SingleIdle
    /\ WalkIdle

\* if not text: return []  /  chunks = []; start = 0; index = 0
ChunkEnter ==
    /\ cpc = "call"
    /\ cpc' = IF text = <<>> THEN "done" ELSE "loop"
    /\ start' = 0
    /\ index' = 0
    /\ chunks' = <<>>
    /\ UNCHANGED <<document_id, text, max_chars, overlap, unrecorded>>
    /\ UNCHANGED <<loadVars, botVars, extVars>>

\* One iteration of the while loop.  Beyond the first ChunkCap chunks the
\* model keeps the cursor exact and only the parity of the further iterations.
ChunkIterate ==
    /\ cpc = "loop"
    /\ start < Len(text)
    /\ LET end == WindowEnd(start, max_chars, Len(text))
       IN  /\ IF Len(chunks) < ChunkCap
              THEN /\ chunks' = Append(chunks,
                                   TextChunk(document_id, text, start, end, index))
                   /\ index' = index + 1
                   /\ unrecorded' = unrecorded
              ELSE /\ chunks' = chunks
                   /\ index' = index
                   /\ unrecorded' = IF unrecorded = 1 THEN 2 ELSE 1
           /\ start' = NextStart(end, max_chars, overlap)
    /\ UNCHANGED <<document_id, text, max_chars, overlap, cpc>>
    /\ UNCHANGED <<loadVars, botVars, extVars>>

\* The loop test fails: return chunks.
ChunkReturn ==
    /\ cpc = "loop"
    /\ start >= Len(text)
    /\ cpc' = "done"
    /\ UNCHANGED <<document_id, text, max_chars, overlap, start, index, chunks,
                   unrecorded>>
    /\ UNCHANGED <<loadVars, botVars, extVars>>

NextChunk == ChunkEnter \/ ChunkIterate \/ ChunkReturn

SpecChunk == InitChunk /\ [][NextChunk]_vars

\* chunk_text is synchronous straight-line code: the interpreter always takes
\* the next step of the call while there is one.
FairSpecChunk == SpecChunk /\ WF_vars(NextChunk)

(***************************************************************************)
(* Loading one source: UnifiedLoader.load_single.                          *)
(***************************************************************************)
Document(src) == [kind |-> "Document", source |-> src]
Exception(type, src) == [kind |-> "Exception", type |-> type, source |-> src]

\* UnifiedLoader._select_loader: None for a path that does not exist, a
\* ValueError out of DocumentType(suffix) for a suffix that is no member, else
\* the loader of the format.
SelectLoader(kind) ==
    CASE kind = "missing"     -> "None"
      [] kind = "unsupported" -> "ValueError"
      [] OTHER                -> "loader"

\* What the selected loader's load_single ends with once its extractor is
\* done: a parser error for a corrupt file, httpx.TimeoutException for a
\* remote source that does not answer within settings.http_timeout_seconds.
ExtractorEnd(kind, src) ==
    CASE kind = "corrupt" -> Exception("ExtractionError", src)
      [] kind = "timeout" -> Exception("TimeoutException", src)
      [] OTHER            -> Document(src)

\* What UnifiedLoader.load_single(source) returns or raises.
LoadSingle(kind, src) ==
    CASE SelectLoader(kind) = "None"       -> Exception("DocumentLoadError", src)
      [] SelectLoader(kind) = "ValueError" -> Exception("ValueError", src)
      [] OTHER                             -> ExtractorEnd(kind, src)

\* load_single suspends (asyncio.to_thread, the HTTP request) only once a
\* loader was selected; before that it runs without yielding to the loop.
Suspends(kind) == SelectLoader(kind) = "loader"

(***************************************************************************)
(* BaseLoader.load_multiple and UnifiedLoader.load_directory.              *)
(***************************************************************************)
\* The batch entry point whose tasks are running.
Batch == IF op = "load_multiple" THEN "load_multiple" ELSE "load_directory"

\* The name of source i of the running batch.
SrcName(i) == <<IF op = "load_documents" THEN cur ELSE 0, i>>

\* The semaphore ignores max_workers: always the configured value.
SemaphoreValueIgnoringWorkers(batch, mw, setting) == setting

\* asyncio.Semaphore(max_workers or settings.max_parallel_loaders)
\* asyncio.Semaphore(settings.max_parallel_loaders)
SemaphoreValue(batch, mw, setting) ==
    IF batch = "load_multiple" /\ mw # 0 THEN mw ELSE setting

\* Leaving "async with semaphore" keeps the permit when the body raised.
PermitsAfterKeptOnRaise(permits, outcome) ==
    IF outcome.kind = "Exception" THEN permits ELSE permits + 1

\* Leaving "async with semaphore" (Semaphore.release in __aexit__) gives the
\* permit back, whether load_single returned or raised.
PermitsAfter(permits, outcome) == permits + 1

\* The directory check lets a missing directory through.
DirectoryCheckSkipped(exists) == "proceed"

\* if not directory.exists(): raise DocumentLoadError("Directory not found")
DirectoryCheck(exists) == IF exists THEN "proceed" ELSE "raise"

\* How run(s) ends for an outcome of load_single: load_multiple's run lets an
\* exception through, load_directory's run catches it and returns it.
RunEnd(batch, outcome) ==
    IF outcome.kind = "Exception" /\ batch = "load_multiple"
    THEN "raised" ELSE "returned"

\* asyncio.gather(*tasks) without return_exceptions, after a child is done:
\* the first exception of a child is set on the outer future at once; the
\* list of results, in argument order, once every child has returned.
GatherAfter(o, ts, tr, i) ==
    IF o.state # "pending" THEN o
    ELSE IF ts[i] = "raised" THEN [state |-> "exception", value |-> tr[i]]
    ELSE IF \A j \in DOMAIN ts : ts[j] = "returned"
         THEN [state |-> "result", value |-> tr]
    ELSE o

\* documents = [r for r in results if isinstance(r, Document)]
OnlyDocuments(results) == SelectSeq(results, LAMBDA r : r.kind = "Document")

\* The call runs up to its await of gather: load_directory checks the
\* directory, the semaphore and the tasks are created.
CallStart ==
    /\ callpc = "start"
    /\ IF Batch = "load_directory" /\ DirectoryCheck(dir_exists) = "raise"
       THEN /\ callpc' = "raised"
            /\ result' = Exception("DocumentLoadError", SrcName(0))
            /\ UNCHANGED <<sem, tstate, tresult, outer>>
       ELSE /\ sem' = SemaphoreValue(Batch, max_workers, max_parallel_loaders)
            /\ tstate' = [i \in 1..Len(sources) |-> "new"]
            /\ tresult' = [i \in 1..Len(sources) |-> NoOutcome]
            /\ outer' = IF sources = <<>>
                        THEN [state |-> "result", value |-> <<>>]
                        ELSE PendingFuture
            /\ callpc' = "gather"
            /\ result' = result
    /\ UNCHANGED <<op, sources, max_workers, max_parallel_loaders, dir_exists>>
    /\ UNCHANGED <<chunkVars, botVars, extVars>>

\* Task i enters "async with semaphore" (permits are handed out in FIFO order,
\* the order of the tasks) and runs load_single up to its first suspension.
\* A source for which no loader is selected fails before any suspension: the
\* permit is taken and given back within the step.
TaskStart(i) ==
    /\ i \in DOMAIN tstate
    /\ tstate[i] = "new"
    /\ \A j \in 1..(i - 1) : tstate[j] # "new"
    /\ sem > 0
    /\ IF Suspends(sources[i])
       THEN /\ sem' = sem - 1
            /\ tstate' = [tstate EXCEPT ![i] = "loading"]
            /\ UNCHANGED <<tresult, outer>>
       ELSE LET outcome == LoadSingle(sources[i], SrcName(i))
                ts == [tstate EXCEPT ![i] = RunEnd(Batch, outcome)]
                tr == [tresult EXCEPT ![i] = outcome]
            IN  /\ sem' = sem
                /\ tstate' = ts
                /\ tresult' = tr
                /\ outer' = GatherAfter(outer, ts, tr, i)
    /\ UNCHANGED <<op, sources, max_workers, max_parallel_loaders, dir_exists,
                   callpc, result>>
    /\ UNCHANGED <<chunkVars, botVars, extVars>>

\* The extractor of task i completes: load_single returns a Document or
\* raises, "async with" gives the permit back, run(s) ends.
TaskFinish(i) ==
    /\ i \in DOMAIN tstate
    /\ tstate[i] = "loading"
    /\ LET outcome == LoadSingle(sources[i], SrcName(i))
           ts == [tstate EXCEPT ![i] = RunEnd(Batch, outcome)]
           tr == [tresult EXCEPT ![i] = outcome]
       IN  /\ sem' = PermitsAfter(sem, outcome)
           /\ tstate' = ts
           /\ tresult' = tr
           /\ outer' = GatherAfter(outer, ts, tr, i)
    /\ UNCHANGED <<op, sources, max_workers, max_parallel_loaders, dir_exists,
                   callpc, result>>
    /\ UNCHANGED <<chunkVars, botVars, extVars>>

\* The call resumes from "await asyncio.gather(*tasks)": load_multiple
\* returns the list or raises the exception of the outer future;
\* load_directory keeps the Documents of the list and returns them.
CallResume ==
    /\ callpc = "gather"
    /\ outer.state # "pending"
    /\ IF outer.state = "exception"
       THEN /\ callpc' = "raised"
            /\ result' = outer.value
       ELSE /\ callpc' = "returned"
            /\ result' = IF Batch = "load_directory"
                         THEN OnlyDocuments(outer.value)
                         ELSE outer.value
    /\ UNCHANGED <<op, sources, max_workers, max_parallel_loaders, dir_exists,
                   sem, tstate, tresult, outer>>
    /\ UNCHANGED <<chunkVars, botVars, extVars>>

(***************************************************************************)
(* TrainingDataBot.load_documents.                                         *)
(***************************************************************************)
\* One pass of "for src in sources": a directory is handed to
\* load_directory, anything else to load_single, whose exception leaves
\* load_documents.
BotStep ==
    /\ botpc = "loop"
    /\ cur <= Len(items)
    /\ IF items[cur] = "dir"
       THEN /\ botpc' = "await_dir"
            /\ callpc' = "start"
            /\ UNCHANGED <<cur, documents>>
       ELSE LET outcome == LoadSingle(items[cur], <<cur, 0>>)
            IN  /\ IF outcome.kind = "Document"
                   THEN /\ documents' = Append(documents, outcome)
                        /\ cur' = cur + 1
                        /\ botpc' = botpc
                   ELSE /\ botpc' = "raised"
                        /\ UNCHANGED <<cur, documents>>
                /\ callpc' = callpc
    /\ UNCHANGED <<items, self_documents>>
    /\ UNCHANGED <<op, sources, max_workers, max_parallel_loaders, dir_exists,
                   sem, tstate, tresult, outer, result>>
    /\ UNCHANGED <<chunkVars, extVars>>

\* load_directory is back: documents.extend(dir_docs), or its exception
\* leaves load_documents.
BotDirDone ==
    /\ botpc = "await_dir"
    /\ callpc \in {"returned", "raised"}
    /\ IF callpc = "returned"
       THEN /\ documents' = documents \o result
            /\ cur' = cur + 1
            /\ botpc' = "loop"
       ELSE /\ botpc' = "raised"
            /\ UNCHANGED <<cur, documents>>
    /\ sem' = 0
    /\ tstate' = <<>>
    /\ tresult' = <<>>
    /\ outer' = PendingFuture
    /\ callpc' = "idle"
    /\ result' = NoOutcome
    /\ UNCHANGED <<items, self_documents>>
    /\ UNCHANGED <<op, sources, max_workers, max_parallel_loaders, dir_exists>>
    /\ UNCHANGED <<chunkVars, extVars>>

\* for doc in documents: self.documents[doc.id] = doc; return documents
BotReturn ==
    /\ botpc = "loop"
    /\ cur > Len(items)
    /\ self_documents' = self_documents \cup {documents[k] : k \in DOMAIN documents}
    /\ botpc' = "returned"
    /\ UNCHANGED <<items, cur, documents>>
    /\ UNCHANGED loadVars
    /\ UNCHANGED <<chunkVars, extVars>>

InitLoad ==
    /\ ChunkIdle
    /\ SingleIdle
    /\ WalkIdle
    /\ max_parallel_loaders \in SettingsValues
    /\ sem = 0
    /\ tstate = <<>>
    /\ tresult = <<>>
    /\ outer = PendingFuture
    /\ result = NoOutcome
    /\ cur = 1
    /\ documents = <<>>
    /\ self_documents = {}
    /\ \/ /\ op = "load_multiple"
          /\ sources \in SeqsUpTo(Kinds, MaxSources)
          /\ max_workers \in 0..MaxWorkers
          /\ dir_exists = TRUE
          /\ callpc = "start"
          /\ items = <<>>
          /\ botpc = "idle"
       \/ /\ op = "load_directory"
          /\ dir_exists \in BOOLEAN
          /\ sources \in (IF dir_exists THEN SeqsUpTo(DirKinds, MaxSources)
                                         ELSE {<<>>})
          /\ max_workers = 0
          /\ callpc = "start"
          /\ items = <<>>
          /\ botpc = "idle"
       \/ /\ op = "load_documents"
          /\ items \in SeqsUpTo(ItemKinds, MaxItems)
          /\ sources \in (IF \E k \in DOMAIN items : items[k] = "dir"
                          THEN SeqsUpTo(DirKinds, MaxSources)
                          ELSE {<<>>})
          /\ max_workers = 0
          /\ dir_exists = TRUE
          /\ callpc = "idle"
          /\ botpc = "loop"

NextLoad ==
    \/ CallStart
    \/ \E i \in 1..MaxSources : TaskStart(i)
    \/ \E i \in 1..MaxSources : TaskFinish(i)
    \/ CallResume
    \/ BotStep
    \/ BotDirDone
    \/ BotReturn

SpecLoad == InitLoad /\ [][NextLoad]_vars

\* The event loop runs every task that is ready, and every extractor comes
\* to an end: file reads finish, the HTTP client gives up after its timeout.
FairSpecLoad == SpecLoad /\ WF_vars(NextLoad)

(***************************************************************************)
(* Classifying and loading one source, on the source string itself:        *)
(* BaseLoader.get_document_type, UnifiedLoader._select_loader and the      *)
(* load_single of the three loaders.                                       *)
(***************************************************************************)
Http == <<"h", "t", "t", "p">>
HttpScheme == Http \o <<":", "/", "/">>
HttpsScheme == Http \o <<"s", ":", "/", "/">>

\* class DocumentType(str, Enum): the members and their values.
DocumentTypeValue ==
    [PDF  |-> <<"p", "d", "f">>,
     DOCX |-> <<"d", "o", "c", "x">>,
     TXT  |-> <<"t", "x", "t">>,
     MD   |-> <<"m", "d">>,
     HTML |-> <<"h", "t", "m", "l">>,
     JSON |-> <<"j", "s", "o", "n">>,
     CSV  |-> <<"c", "s", "v">>,
     URL  |-> <<"u", "r", "l">>]

\* DocumentType(value): the member with that value, ValueError if there is none.
DocumentType(value) ==
    IF \E t \in DOMAIN DocumentTypeValue : DocumentTypeValue[t] = value
    THEN CHOOSE t \in DOMAIN DocumentTypeValue : DocumentTypeValue[t] = value
    ELSE "ValueError"

\* p.suffix.lower().lstrip(".")
SuffixKey(src) == LStrip(Lower(PathSuffix(src)), ".")

\* source.startswith(("http://", "https://"))
HasScheme(src) == StartsWith(src, HttpScheme) \/ StartsWith(src, HttpsScheme)

\* BaseLoader.get_document_type(source)
get_document_type(src, is_str) ==
    IF is_str /\ StartsWith(src, Http) THEN "URL" ELSE DocumentType(SuffixKey(src))

\* The formats UnifiedLoader._select_loader hands to self.document_loader.
DocumentLoaderFormats == {"TXT", "MD", "HTML", "JSON", "CSV", "DOCX"}

\* UnifiedLoader._select_loader(source): the loader, "None", or the
\* ValueError of DocumentType(suffix).
select_loader(src, is_str, exists) ==
    IF is_str /\ HasScheme(src) THEN "web_loader"
    ELSE IF ~exists THEN "None"
    ELSE LET t == DocumentType(SuffixKey(src))
         IN  CASE t = "ValueError"            -> "ValueError"
               [] t = "PDF"                   -> "pdf_loader"
               [] t \in DocumentLoaderFormats -> "document_loader"
               [] OTHER                       -> "None"

\* BaseLoader.create_document: source=str(source); metadata={**kwargs}.
create_document(title, src, type, kwargs) ==
    [kind |-> "Document", title |-> title, source |-> src, doc_type |-> type,
     metadata |-> kwargs]

\* An exception leaving load_single: its class and the head of its message.
Raised(type, msg) == [kind |-> "Exception", type |-> type, msg |-> msg]

\* What the extractor raises when it fails: an exception of the library that
\* parses or fetches (UnicodeDecodeError, json.JSONDecodeError, a fitz error,
\* httpx.HTTPError), no DocumentLoadError.
ExtractorRaises == Raised("ExtractorError", "extractor")

\* DocumentLoader.load_single(source)
DocumentLoader_load_single(src, is_str, exists, ok) ==
    LET t == get_document_type(src, is_str)
    IN  CASE t = "ValueError" -> Raised("ValueError", "not a valid DocumentType")
          [] ~exists          -> Raised("DocumentLoadError", "File not found")
          [] t \notin DocumentLoaderFormats
                              -> Raised("DocumentLoadError", "Unsupported document type")
          [] ~ok              -> ExtractorRaises
          [] OTHER            -> create_document(PathStem(src), PathStr(src), t, {})

\* PDFLoader.load_single(source)
PDFLoader_load_single(src, exists, ok) ==
    CASE ~exists -> Raised("DocumentLoadError", "File not found")
      [] ~ok     -> ExtractorRaises
      [] OTHER   -> create_document(PathStem(src), PathStr(src), "PDF",
                        {<<"extraction_method", "PDFLoader.pymupdf">>})

\* WebLoader._extract_title, when the page has no title: netloc + path.
UrlBase(src) ==
    IF StartsWith(src, HttpScheme)
    THEN SubSeq(src, Len(HttpScheme) + 1, Len(src))
    ELSE SubSeq(src, Len(HttpsScheme) + 1, Len(src))

\* WebLoader.load_single(source)
WebLoader_load_single(src, is_str, ok) ==
    CASE ~(is_str /\ HasScheme(src)) -> Raised("DocumentLoadError", "Invalid URL")
      [] ~ok   -> ExtractorRaises
      [] OTHER -> create_document(UrlBase(src), src, "URL",
                      {<<"extraction_method", "WebLoader.httpx">>})

\* The prefixes, stems and suffixes the sources are made of.
Prefixes ==
    { <<>>, <<".", "/">>, <<"d", "/">>, Http, HttpScheme \o <<"h", "/">>,
      HttpsScheme \o <<"h", "/">> }
Stems == { <<"a">>, <<>> }
Suffixes ==
    { <<>>, <<".">>,
      <<".", "t", "x", "t">>, <<".", "T", "X", "T">>, <<".", "m", "d">>,
      <<".", "h", "t", "m", "l">>, <<".", "j", "s", "o", "n">>,
      <<".", "c", "s", "v">>, <<".", "p", "d", "f">>, <<".", "P", "D", "F">>,
      <<".", "d", "o", "c", "x">>, <<".", "e", "x", "e">>,
      <<".", "u", "r", "l">> }
\* Every source but the ones that denote the current directory.
SourceStrings ==
    { s \in { p \o st \o sf : p \in Prefixes, st \in Stems, sf \in Suffixes } :
          PathStr(s) # <<".">> }

\* A call with a str source, or with the Path made of it.
InitSingle ==
    /\ ChunkIdle
    /\ LoadIdle
    /\ WalkIdle
    /\ source_is_str \in BOOLEAN
    /\ \E raw \in SourceStrings :
           source = IF source_is_str THEN raw ELSE PathStr(raw)
    /\ fs_exists \in BOOLEAN
    /\ extractor_ok \in BOOLEAN
    /\ doc_type = "unset"
    /\ loader = "unset"
    /\ single_result = NoOutcome
    /\ spc = "call"

\* loader.get_document_type(source) is called on the source.
Classify ==
    /\ spc = "call"
    /\ doc_type' = get_document_type(source, source_is_str)
    /\ spc' = "typed"
    /\ UNCHANGED <<source, source_is_str, fs_exists, extractor_ok, loader,
                   single_result>>
    /\ UNCHANGED <<chunkVars, loadVars, botVars, walkVars>>

\* UnifiedLoader.load_single(source) up to the delegation: no loader, or the
\* ValueError of _select_loader, ends the call.
UnifiedSelect ==
    /\ spc = "call"
    /\ LET l == select_loader(source, source_is_str, fs_exists)
       IN  /\ loader' = l
           /\ CASE l = "None" ->
                     /\ single_result' = Raised("DocumentLoadError",
                                                "Unsupported or missing source")
                     /\ spc' = "done"
                [] l = "ValueError" ->
                     /\ single_result' = Raised("ValueError",
                                                "not a valid DocumentType")
                     /\ spc' = "done"
                [] OTHER ->
                     /\ single_result' = single_result
                     /\ spc' = "delegated"
    /\ UNCHANGED <<source, source_is_str, fs_exists, extractor_ok, doc_type>>
    /\ UNCHANGED <<chunkVars, loadVars, botVars, walkVars>>

\* return await loader.load_single(source, **kwargs)
UnifiedDelegate ==
    /\ spc = "delegated"
    /\ single_result' =
           CASE loader = "web_loader" ->
                    WebLoader_load_single(source, source_is_str, extractor_ok)
             [] loader = "pdf_loader" ->
                    PDFLoader_load_single(source, fs_exists, extractor_ok)
             [] loader = "document_loader" ->
                    DocumentLoader_load_single(source, source_is_str, fs_exists,
                                               extractor_ok)
    /\ spc' = "done"
    /\ UNCHANGED <<source, source_is_str, fs_exists, extractor_ok, doc_type,
                   loader>>
    /\ UNCHANGED <<chunkVars, loadVars, botVars, walkVars>>

NextSingle == Classify \/ UnifiedSelect \/ UnifiedDelegate

SpecSingle == InitSingle /\ [][NextSingle]_vars

(***************************************************************************)
(* UnifiedLoader._find_supported_files.                                    *)
(***************************************************************************)
\* patterns = ["*.pdf", "*.txt", "*.md", "*.html", "*.docx", "*.json",
\* "*.csv"]: each pattern by what follows its "*".
patterns ==
    << <<".", "p", "d", "f">>,
       <<".", "t", "x", "t">>,
       <<".", "m", "d">>,
       <<".", "h", "t", "m", "l">>,
       <<".", "d", "o", "c", "x">>,
       <<".", "j", "s", "o", "n">>,
       <<".", "c", "s", "v">> >>

\* fnmatch of "*" + tail against a file name, case-sensitive (POSIX).
GlobMatch(name, tail) == EndsWith(name, tail)

\* The directory that is walked.
Root == <<"r">>

File(rel) == [parts |-> rel, is_dir |-> FALSE]
Dir(rel) == [parts |-> rel, is_dir |-> TRUE]

\* The entries a tree is made of: files with a supported, an unsupported, an
\* upper-case and a dot-only name, a directory named like a file, and files
\* in two subdirectories.
Entries ==
    { File(<<<<"a", ".", "t", "x", "t">>>>), File(<<<<"b", ".", "p", "d", "f">>>>), File(<<<<"c", ".", "e", "x", "e">>>>), File(<<<<"e", ".", "T", "X", "T">>>>),
      File(<<<<".", "t", "x", "t">>>>), Dir(<<<<"d", ".", "m", "d">>>>),
      File(<<<<"s">>, <<"x", ".", "t", "x", "t">>>>), File(<<<<"s", "-", "t">>, <<"y", ".", "m", "d">>>>) }

Trees == {t \in SUBSET Entries : Cardinality(t) <= MaxEntries}

\* directory.rglob(pattern) / directory.glob(pattern): the entries, files and
\* directories alike, at any depth or directly in the directory, whose name
\* matches; each as the Path directory / parts.
Glob(t, rec, tail) ==
    { <<Root>> \o e.parts : e \in
        { e \in t : /\ rec \/ Len(e.parts) = 1
                    /\ GlobMatch(e.parts[Len(e.parts)], tail) } }

\* The orders in which the file system may enumerate a set of paths.
Enumerations(S) ==
    { q \in [1..Cardinality(S) -> S] :
          \A i, j \in 1..Cardinality(S) : q[i] = q[j] => i = j }

\* The characters of the names, in the order of their code points.
CodeOrder ==
    << "-", ".", "/", "D", "F", "M", "P", "T", "X",
       "a", "b", "c", "d", "e", "f", "h", "j", "l", "m", "n", "o", "p", "r",
       "s", "t", "u", "v", "x", "y" >>
Code(c) == CHOOSE i \in DOMAIN CodeOrder : CodeOrder[i] = c

\* str.__lt__: the first differing character decides, a proper prefix is less.
RECURSIVE StrLess(_, _)
StrLess(a, b) ==
    IF b = <<>> THEN FALSE
    ELSE IF a = <<>> THEN TRUE
    ELSE IF a[1] # b[1] THEN Code(a[1]) < Code(b[1])
    ELSE StrLess(Tail(a), Tail(b))

\* PurePath.__lt__: the lists of components are compared, component by
\* component, each as a string.
RECURSIVE PathLess(_, _)
PathLess(p, q) ==
    IF q = <<>> THEN FALSE
    ELSE IF p = <<>> THEN TRUE
    ELSE IF p[1] # q[1] THEN StrLess(p[1], q[1])
    ELSE PathLess(Tail(p), Tail(q))

\* One step of a stable sort: x goes behind every element not greater.
RECURSIVE Insert(_, _)
Insert(x, sq) ==
    IF sq = <<>> THEN <<x>>
    ELSE IF PathLess(x, sq[1]) THEN <<x>> \o sq
    ELSE <<sq[1]>> \o Insert(x, Tail(sq))

RECURSIVE InsertAll(_, _)
InsertAll(sq, acc) ==
    IF sq = <<>> THEN acc ELSE InsertAll(Tail(sq), Insert(sq[1], acc))

\* The list is returned as it was collected.
unsorted(sq) == sq

\* sorted(files)
sorted(sq) == InsertAll(sq, <<>>)

InitWalk ==
    /\ ChunkIdle
    /\ LoadIdle
    /\ SingleIdle
    /\ tree \in Trees
    /\ recursive \in BOOLEAN
    /\ pattern = 1
    /\ files = <<>>
    /\ found = <<>>
    /\ wpc = "loop"

\* files.extend(directory.rglob(pattern) if recursive else
\* directory.glob(pattern)), in the order the file system enumerates.
WalkPattern ==
    /\ wpc = "loop"
    /\ pattern <= Len(patterns)
    /\ \E q \in Enumerations(Glob(tree, recursive, patterns[pattern])) :
           files' = files \o q
    /\ pattern' = pattern + 1
    /\ UNCHANGED <<tree, recursive, found, wpc>>
    /\ UNCHANGED <<chunkVars, loadVars, botVars, singleVars>>

\* return sorted(files)
WalkReturn ==
    /\ wpc = "loop"
    /\ pattern > Len(patterns)
    /\ found' = sorted(files)
    /\ wpc' = "returned"
    /\ UNCHANGED <<tree, recursive, pattern, files>>
    /\ UNCHANGED <<chunkVars, loadVars, botVars, singleVars>>

NextWalk == WalkPattern \/ WalkReturn

SpecWalk == InitWalk /\ [][NextWalk]_vars

(***************************************************************************)
(* Properties of chunk_text.                                               *)
(***************************************************************************)
NonEmptyText == text # <<>>
Returned == cpc = "done"
\* The loop body is about to run once more.
AtIteration == cpc = "loop" /\ start < Len(text)
IsScenario ==
    text = ScenarioText /\ max_chars = DefaultMaxChars /\ overlap = DefaultOverlap

\* C1: for non-empty text and 0 <= overlap < max_chars the call terminates:
\* the cursor reaches len(text), the loop exits and the chunk list is returned.
C1_Terminates ==
    (NonEmptyText /\ 0 <= overlap /\ overlap < max_chars) => <>Returned

\* The chunk list covers [0, len(text)) without gaps and ends at len(text).
CoversText ==
    /\ chunks # <<>>
    /\ chunks[1].start_index = 0
    /\ \A k \in 2..Len(chunks) : chunks[k].start_index <= chunks[k - 1].end_index
    /\ chunks[Len(chunks)].end_index = Len(text)

\* C2: for non-empty text and 0 <= overlap < max_chars chunk_text returns
\* chunks that cover [0, len(text)) with no gaps, the first starting at 0 and
\* the last ending at len(text).
C2_ReturnsCover ==
    (NonEmptyText /\ 0 <= overlap /\ overlap < max_chars)
        => <>(Returned /\ CoversText)

\* C3: the k-th emitted chunk has chunk_index k (from 0), and of any two
\* chunks the one with the smaller chunk_index has the strictly smaller
\* start_index.  Stated for the window sizes max_chars >= 1.
C3_OrdinalOrder ==
    max_chars >= 1 =>
        \A k \in 1..Len(chunks) :
            /\ chunks[k].chunk_index = k - 1
            /\ \A j \in 1..(k - 1) :
                   chunks[j].start_index < chunks[k].start_index

\* C4: for non-empty text every chunk other than the final one (every chunk
\* that is followed by another) has end_index - start_index and len(content)
\* equal to max_chars.
C4_FullWindows ==
    NonEmptyText =>
        \A k \in 1..(Len(chunks) - 1) :
            /\ chunks[k].end_index - chunks[k].start_index = max_chars
            /\ Len(chunks[k].content) = max_chars

\* C5 as stated: for non-empty text and every configuration with
\* overlap >= max_chars the call terminates and every iteration leaves the
\* cursor strictly greater than it found it.
C5_ClampProgressAnyWindow ==
    /\ [][(NonEmptyText /\ overlap >= max_chars /\ AtIteration)
             => start' > start]_vars
    /\ ((NonEmptyText /\ overlap >= max_chars) => <>Returned)

\* C5 amended: the same for every configuration with max_chars >= 1 and
\* overlap >= max_chars.
C5_ClampProgress ==
    /\ [][(NonEmptyText /\ max_chars >= 1 /\ overlap >= max_chars /\ AtIteration)
             => start' > start]_vars
    /\ ((NonEmptyText /\ max_chars >= 1 /\ overlap >= max_chars) => <>Returned)

\* A call with overlap >= max_chars >= 1 has returned after several iterations.
C5_Witness ==
    /\ Returned
    /\ max_chars >= 1
    /\ overlap >= max_chars
    /\ Len(chunks) >= 2

\* C6: chunk_text never fails: every call returns (stated for the window
\* sizes max_chars >= 1), and for empty text it returns the empty list
\* without entering the loop.
C6_AlwaysReturns ==
    /\ (max_chars >= 1 => <>Returned)
    /\ [](text = <<>> => (cpc # "loop" /\ chunks = <<>>))

\* C7: the 2500-character text with the default window 1000 and overlap 100
\* yields 4 chunks, chunk_index 0..3, the first starting at 0, 900 and 1800,
\* the final one ending at 2500.
C7_Scenario ==
    IsScenario =>
        /\ Len(chunks) <= 4
        /\ Returned =>
              /\ Len(chunks) = 4
              /\ \A k \in 1..4 : chunks[k].chunk_index = k - 1
              /\ chunks[1].start_index = 0
              /\ chunks[2].start_index = 900
              /\ chunks[3].start_index = 1800
              /\ chunks[4].end_index = 2500


\* The last n characters of a, and the first n characters of b.
LastChars(a, n) == SubSeq(a, Len(a) - n + 1, Len(a))
FirstChars(b, n) == SubSeq(b, 1, n)

\* C22: every emitted chunk spans [cursor, min(cursor + max_chars,
\* len(text))): 0 <= start_index < end_index <= len(text), and its content is
\* the characters of text from start_index to end_index, end_index -
\* start_index of them.  Stated for the window sizes max_chars >= 1.
C22_ChunkSpansWindow ==
    max_chars >= 1 =>
        \A k \in 1..Len(chunks) :
            LET c == chunks[k]
            IN  /\ 0 <= c.start_index
                /\ c.start_index < c.end_index
                /\ c.end_index <= Len(text)
                /\ c.end_index = Min(c.start_index + max_chars, Len(text))
                /\ Len(c.content) = c.end_index - c.start_index
                /\ c.content = SubSeq(text, c.start_index + 1, c.end_index)

\* The start of each chunk but the first follows the rule of the cursor.
CursorRule ==
    \A k \in 1..(Len(chunks) - 1) :
        chunks[k + 1].start_index =
            IF overlap < max_chars
            THEN chunks[k].end_index - overlap
            ELSE chunks[k].end_index

\* Consecutive chunks have overlap characters in common: the last overlap
\* characters of the one are the first overlap characters of the next.
ShareOverlap ==
    \A k \in 1..(Len(chunks) - 1) :
        /\ Len(chunks[k].content) >= overlap
        /\ Len(chunks[k + 1].content) >= overlap
        /\ LastChars(chunks[k].content, overlap)
              = FirstChars(chunks[k + 1].content, overlap)

\* C23: between consecutive chunks the cursor advances by the rule: for
\* overlap < max_chars the next chunk starts at the end_index of the
\* previous one minus overlap, the two sharing exactly overlap characters;
\* for overlap >= max_chars it starts at the end_index of the previous one.
C23_CursorAdvance ==
    /\ CursorRule
    /\ overlap < max_chars => ShareOverlap

(***************************************************************************)
(* Properties of the batch loads.                                          *)
(***************************************************************************)
\* The load_single invocations that have started and not yet returned or raised.
InFlight == {i \in DOMAIN tstate : tstate[i] = "loading"}
\* The sources of the batch whose load fails.
InvalidSources == {i \in DOMAIN sources : sources[i] # "ok"}
CountKind(seq, k) == Cardinality({i \in DOMAIN seq : seq[i].kind = k})
\* The loader call has left its frame, by return or by exception.
CallEnded == callpc \in {"returned", "raised"}
IsBatchCall == op \in {"load_multiple", "load_directory"}

\* C8: a batch load over N sources of which K are invalid returns exactly N
\* outcomes, K of them failures and N-K Documents, whatever the ceiling and
\* the interleaving.
C8_OneOutcomePerSource ==
    (IsBatchCall /\ dir_exists /\ CallEnded) =>
        /\ callpc = "returned"
        /\ Len(result) = Len(sources)
        /\ CountKind(result, "Exception") = Cardinality(InvalidSources)
        /\ CountKind(result, "Document")
              = Len(sources) - Cardinality(InvalidSources)

\* The ceiling the caller asked for: max_workers where given, else the
\* configured settings.max_parallel_loaders.
RequestedCeiling ==
    IF op = "load_multiple" /\ max_workers # 0
    THEN max_workers ELSE max_parallel_loaders

\* C9: at every instant of a batch load the number of load_single invocations
\* in flight is at most the ceiling.
C9_InFlightBounded == Cardinality(InFlight) <= RequestedCeiling

\* The ceiling binds: as many loads in flight as it allows, and a further
\* task waiting for a permit.
C9_Witness ==
    /\ Cardinality(InFlight) = RequestedCeiling
    /\ \E i \in DOMAIN tstate : tstate[i] = "new"

\* C10: a batch load never raises because a source failed: load_multiple,
\* load_directory (of an existing directory) and load_documents end by
\* returning, the failure only inside the returned outcomes.
C10_NeverRaises ==
    dir_exists => (callpc # "raised" /\ botpc # "raised")

\* What the caller of the ended batch call holds: the elements of the
\* returned list, or the one exception that was raised.
CallerSees ==
    IF callpc = "returned" THEN {result[k] : k \in DOMAIN result} ELSE {result}

\* C11: after a batch load in which some sources failed, what the caller is
\* handed holds the failure of every failed source: no failure outcome is
\* dropped from the result of load_directory or load_multiple.
C11_FailuresInspectable ==
    (IsBatchCall /\ dir_exists /\ CallEnded) =>
        \A i \in DOMAIN tstate :
            (tresult[i] # NoOutcome /\ tresult[i].kind = "Exception")
                => tresult[i] \in CallerSees

\* C12: a batch load that partially fails still returns every Document whose
\* load succeeded: once the call has ended it has returned, and the Document
\* of every source whose load_single returned one is in the result.
C12_SuccessesReturned ==
    (IsBatchCall /\ dir_exists /\ CallEnded) =>
        \A i \in DOMAIN tstate :
            (tresult[i] # NoOutcome /\ tresult[i].kind = "Document")
                => (callpc = "returned" /\ tresult[i] \in CallerSees)

(***************************************************************************)
(* Properties of classification and of load_single.                        *)
(***************************************************************************)
\* The seven local formats of the suffix table.
LocalFormats == DocumentLoaderFormats \cup {"PDF"}
\* The tag the suffix table gives the source: the format of its suffix,
\* compared in lower case without the dot, or Unrecognized (the ValueError).
TagOfSuffix(src) ==
    IF DocumentType(SuffixKey(src)) \in LocalFormats
    THEN DocumentType(SuffixKey(src)) ELSE "ValueError"

\* C13: every outcome of a batch load is attributable to its source: element
\* i of the result of load_multiple is the outcome of sources[i] whatever the
\* order of completion, and the source field of every returned Document
\* equals the string of the source it was loaded from.
C13_OutcomesAttributable ==
    /\ (op = "load_multiple" /\ CallEnded) =>
           /\ callpc = "returned"
           /\ Len(result) = Len(sources)
           /\ \A i \in DOMAIN sources :
                  result[i] = tresult[i] /\ result[i].source = SrcName(i)
    /\ (spc = "done" /\ single_result.kind = "Document") =>
           single_result.source = source

\* C14: for every local source (one that does not begin with http:// or
\* https://) whose suffix, in lower case and without the dot, is one of the
\* seven local formats, get_document_type returns that format, whatever the
\* rest of the path or file name is.
C14_LocalSuffixClassified ==
    (spc = "typed" /\ ~HasScheme(source)
                   /\ DocumentType(SuffixKey(source)) \in LocalFormats)
        => doc_type = DocumentType(SuffixKey(source))

\* C15: classification gives URL exactly for the sources that begin with
\* http:// or https://; every other source is classified by its suffix only,
\* and a suffix outside the seven local formats ("url" and the empty suffix
\* too) gives Unrecognized, never URL or a default.
C15_UrlExactlyByScheme ==
    /\ spc = "typed" =>
           /\ doc_type = "URL" <=> HasScheme(source)
           /\ ~HasScheme(source) => doc_type = TagOfSuffix(source)
    /\ spc \in {"delegated", "done"} =>
           (loader = "web_loader" <=> HasScheme(source))

\* The causes the failure of the call may name: a suffix the table does not
\* know, a file that does not exist; failing these, the extractor.
CausesOfFailure ==
    IF source_is_str /\ HasScheme(source) THEN {"ExtractionFailed"}
    ELSE LET cs == (IF TagOfSuffix(source) = "ValueError"
                    THEN {"UnsupportedFormat"} ELSE {})
                   \cup (IF fs_exists THEN {} ELSE {"SourceNotFound"})
         IN  IF cs = {} THEN {"ExtractionFailed"} ELSE cs

\* The causes an exception of load_single can stand for, by its class and
\* message; none for an exception that is no DocumentLoadError.
CausesNamedBy(e) ==
    IF e.type # "DocumentLoadError" THEN {}
    ELSE CASE e.msg = "File not found"                -> {"SourceNotFound"}
           [] e.msg = "Unsupported document type"     -> {"UnsupportedFormat"}
           [] e.msg = "Invalid URL"                   -> {"UnsupportedFormat"}
           [] e.msg = "Unsupported or missing source" ->
                  {"UnsupportedFormat", "SourceNotFound"}
           [] OTHER                                   -> {}

\* C16: every failure of UnifiedLoader.load_single is a typed loader failure
\* that names its cause, one of UnsupportedFormat (unrecognized suffix),
\* SourceNotFound (missing file) and ExtractionFailed (the extractor
\* raised); the three are told apart and no other exception type escapes.
C16_TypedFailures ==
    (spc = "done" /\ single_result.kind = "Exception") =>
        /\ single_result.type = "DocumentLoadError"
        /\ Cardinality(CausesNamedBy(single_result)) = 1
        /\ CausesNamedBy(single_result) \subseteq CausesOfFailure

\* load_single has returned a Document.
LoadedDocument == spc = "done" /\ single_result.kind = "Document"

\* C21: every Document a successful UnifiedLoader.load_single produces, of
\* whichever format family, carries the name of the extraction method in
\* its metadata map.
C21_ExtractionMethodRecorded ==
    LoadedDocument =>
        \E kv \in single_result.metadata : kv[1] = "extraction_method"

\* C25: the dispatcher and the extractor agree: whenever _select_loader
\* routes an existing local source to DocumentLoader, the get_document_type
\* of DocumentLoader.load_single gives one of the six types it handles, and
\* load_single does not reject the source as an unsupported document type.
C25_DispatcherAgreesWithExtractor ==
    (loader = "document_loader" /\ fs_exists) =>
        /\ get_document_type(source, source_is_str) \in DocumentLoaderFormats
        /\ spc = "done" =>
              ~(/\ single_result.kind = "Exception"
                /\ single_result.msg = "Unsupported document type")

\* The fetch of remote source i is under way and will time out.
TimingOut(i) ==
    i \in DOMAIN tstate /\ tstate[i] = "loading" /\ sources[i] = "timeout"
\* Task i has ended with a failure and a permit is free.
FailedAndReleased(i) ==
    /\ i \in DOMAIN tstate
    /\ tstate[i] \in {"raised", "returned"}
    /\ tresult[i].kind = "Exception"
    /\ sem > 0
\* No task of the batch is waiting for a permit or still loading.
Quiescent == \A i \in DOMAIN tstate : tstate[i] \notin {"new", "loading"}

\* C17: when the fetch of a remote source times out inside a batch load, the
\* outcome of that source becomes a failure and its permit is given back in
\* the same step, and no source is left waiting for a permit or loading for
\* ever: no unresponsive remote source holds its permit for ever.
C17_TimeoutReleasesSlot ==
    /\ [][\A i \in 1..MaxSources :
              (TimingOut(i) /\ tstate'[i] # "loading")
                  => (FailedAndReleased(i)' /\ sem' = sem + 1)]_vars
    /\ <>[]Quiescent

\* One permit, held by a remote source that timed out; it failed, and the
\* source that waited behind it is now loading.
C17_Witness ==
    /\ RequestedCeiling = 1
    /\ Len(sources) >= 2
    /\ sources[1] = "timeout"
    /\ tstate # <<>>
    /\ tstate[1] = "raised"
    /\ tresult[1].type = "TimeoutException"
    /\ tstate[2] = "loading"

\* C18: load_directory of a path that does not exist raises
\* DocumentLoadError before any file is expanded or loaded: the call never
\* returns a list, and no task was ever created.
C18_MissingDirectoryRaises ==
    (op = "load_directory" /\ ~dir_exists) =>
        /\ callpc \in {"start", "raised"}
        /\ tstate = <<>>
        /\ outer = PendingFuture
        /\ callpc = "raised" =>
              (result.kind = "Exception" /\ result.type = "DocumentLoadError")

\* load_directory of a missing directory has raised.
C18_Witness ==
    /\ op = "load_directory"
    /\ ~dir_exists
    /\ callpc = "raised"
    /\ result.type = "DocumentLoadError"

\* The semaphore of the batch call has been created.
SemaphoreCreated ==
    /\ callpc \in {"gather", "returned", "raised"}
    /\ tstate # <<>>

\* C24: the permits are conserved on every path of a batch task: the free
\* permits plus the tasks inside the guarded section equal the ceiling in
\* every state, and a task gives its permit back when load_single returns
\* and when it raises, in load_multiple and in load_directory.
C24_PermitsConserved ==
    /\ [](SemaphoreCreated => sem + Cardinality(InFlight) = RequestedCeiling)
    /\ [][\A i \in 1..MaxSources :
              (i \in InFlight /\ tstate'[i] # "loading")
                  => (sem' = sem + 1 /\ tresult'[i] # NoOutcome)]_vars

\* A load that raised has left the guarded section while another task is
\* still inside it, the permits adding up to the ceiling.
C24_Witness ==
    /\ SemaphoreCreated
    /\ InFlight # {}
    /\ \E i \in DOMAIN tstate :
           /\ sources[i] \in {"corrupt", "timeout"}
           /\ tstate[i] \in {"returned", "raised"}
    /\ sem + Cardinality(InFlight) = RequestedCeiling

\* C26: under fair scheduling, with every load_single coming to an end,
\* every source of a batch call gets a permit and finishes, no task waits
\* for the semaphore for ever, and the call (load_multiple, load_directory)
\* eventually returns.
C26_BatchReturns ==
    (IsBatchCall /\ dir_exists) =>
        /\ \A i \in 1..MaxSources :
               (i \in DOMAIN sources) =>
                   <>(i \in DOMAIN tstate /\ tstate[i] \in {"returned", "raised"})
        /\ <>(callpc = "returned")

(***************************************************************************)
(* Properties of _find_supported_files.                                    *)
(***************************************************************************)
WalkReturned == wpc = "returned"
Range(sq) == {sq[k] : k \in DOMAIN sq}
\* The files (no directories) of the tree that the walk is to visit: all
\* levels when recursive, else the ones directly in the directory.
FilesInScope ==
    {e \in tree : ~e.is_dir /\ (recursive \/ Len(e.parts) = 1)}
\* The classifier gives the Path of the entry one of the seven local formats.
Recognized(e) ==
    get_document_type(JoinSlash(<<Root>> \o e.parts), FALSE) \in LocalFormats

\* C19: the paths _find_supported_files returns are exactly the files of
\* the tree (all levels when recursive) whose suffix, compared as the
\* classifier compares it, is one of the seven local formats.
C19_ExactlyRecognizedFiles ==
    WalkReturned =>
        Range(found) = {<<Root>> \o e.parts : e \in {f \in FilesInScope : Recognized(f)}}

\* Successive elements increase strictly in the given order.
Increasing(sq, Less(_, _)) ==
    \A k \in 1..(Len(sq) - 1) : Less(sq[k], sq[k + 1])
\* Order of the full path strings.
FullStringLess(p, q) == StrLess(JoinSlash(p), JoinSlash(q))
\* The paths every pattern matches in the tree, whatever the enumeration.
AllMatches ==
    UNION {Glob(tree, recursive, patterns[k]) : k \in DOMAIN patterns}

\* C20 as stated: the returned sequence is sorted in lexicographic order of
\* the full path string, holds no path twice, and is the same for every
\* enumeration order of the file system.
C20_SortedByPathString ==
    WalkReturned =>
        /\ Increasing(found, FullStringLess)
        /\ Range(found) = AllMatches

\* C20 amended: the returned sequence is sorted in the order of Path
\* objects (component by component, each component as a string), holds no
\* path twice, and is the same for every enumeration order: it is the one
\* strictly increasing sequence of the matched paths.
C20_SortedByPath ==
    WalkReturned =>
        /\ Increasing(found, PathLess)
        /\ Range(found) = AllMatches

\* The walk returned several paths that the file system had enumerated in
\* another order than the one returned.
C20_Witness ==
    /\ WalkReturned
    /\ Len(found) >= 2
    /\ files # found

=============================================================================
